---------------------------- MODULE Spec2Model ----------------------------
(***************************************************************************)
(* Verification model of the Polar web client slice:                       *)
(*   - the outbound webhook delivery cycle described by the Webhooks       *)
(*     documentation page (retries, timeouts);                             *)
(*   - OrganizationPublicPage: the tab state, driven by the URL and by     *)
(*     the tab control;                                                    *)
(*   - the dashboard pages: finance/incoming, finance/outgoing and sales.  *)
(* One page is mounted at a time; the variables of the pages that are not  *)
(* mounted keep their initial values.                                      *)
(***************************************************************************)
EXTENDS Integers, Sequences, FiniteSets, TLC

VARIABLES
  \* ---- webhook delivery (documentation page) ----
  whStatus,       \* "idle" | "sending" | "backoff" | "delivered" | "abandoned"
  whEvent,        \* number of events triggered so far
  whAttempts,     \* delivery attempts made for the current event
  whRetries,      \* retries made for the current event
  whElapsed,      \* seconds the current attempt has been waiting for an answer
  whDelay,        \* backoff delay before the next retry, in initial-delay units
  whLastError,    \* "none" | "network" | "endpoint" | "timeout"
  \* ---- OrganizationPublicPage ----
  onFirstRenderTab, \* the prop: Some(tab) or None
  tab,              \* useState: the current tab
  searchParams,     \* useSearchParams(): a sequence of <<key, value>>
  effectPending,    \* the useEffect is scheduled (a dependency changed)
  lastUserSel,      \* history: Some(v) since the last onValueChange(v), None
                    \* since the last change of the search parameters
  orgOp,            \* history: the last step of the page
  \* ---- dashboard pages ----
  page,             \* the mounted page: "incoming" | "outgoing" | "sales"
  server,           \* the back end's totals: [transfers, payouts, payments]
  params,           \* finance/incoming: useSearchParams()
  activeTab,        \* finance/incoming: the Tabs' own (uncontrolled) value
  navQueue,         \* routes handed to router.replace, not yet committed
  currentPage,      \* usePagination(): the current page
  accounts,         \* useListAccountsByOrganization(...).data : Option
  transfers,        \* useTransferTransactions(...).data : Option
  payouts,          \* usePayoutTransactions(...).data : Option
  transactions,     \* finance/outgoing: useUserPaymentTransactions(...).data
  finOp,            \* history: the last step of the finance page
  droppedKeys,      \* history: the keys the last committed route removed
  organization,     \* sales: the organization prop (its slug)
  pagination,       \* sales: the pagination prop
  sorting,          \* sales: the sorting prop
  productId,        \* sales: the productId prop : Option of a sequence
  ordersHook,       \* sales: useOrders(...) : [data : Option, isLoading]
  pushed,           \* sales: the route handed to router.push, not yet rendered
  salesLast         \* sales: history of the last handler call

whVars == <<whStatus, whEvent, whAttempts, whRetries, whElapsed, whDelay,
            whLastError>>
orgVars == <<onFirstRenderTab, tab, searchParams, effectPending, lastUserSel,
             orgOp>>
finVars == <<server, params, activeTab, navQueue, currentPage, accounts,
             transfers, payouts, transactions, finOp, droppedKeys>>
salesVars == <<organization, pagination, sorting, productId, ordersHook,
               pushed, salesLast>>
dashVars == <<page, finVars, salesVars>>
vars == <<whVars, orgVars, dashVars>>

-----------------------------------------------------------------------------
(* Values shared by the components.                                        *)

\* An optional value (undefined | x): the empty sequence or <<x>>.
None == <<>>
Some(x) == <<x>>
IsSome(o) == o # <<>>
\* o ?? d
OrElse(o, d) == IF o = <<>> THEN d ELSE o[1]

\* URLSearchParams.get: the first value of the key, or null.
Null == "<null>"
RECURSIVE Get(_, _)
Get(q, k) ==
  IF q = <<>> THEN Null
  ELSE IF q[1][1] = k THEN q[1][2] ELSE Get(Tail(q), k)

Keys(q) == {q[i][1] : i \in 1..Len(q)}

\* JavaScript truthiness of a string | null.
Truthy(s) == s # Null /\ s # ""

-----------------------------------------------------------------------------
(* Webhook delivery: docs/developers/webhooks, "Retries" and "Timeouts".   *)

MaxRetries == 10
TimeoutSeconds == 20
MaxEvents == 2

\* Exponential backoff: the delay before retry k, in units of the first delay.
BackoffDelay(k) == 2 ^ (k - 1)

WhInit ==
  /\ whStatus = "idle"
  /\ whEvent = 0
  /\ whAttempts = 0
  /\ whRetries = 0
  /\ whElapsed = 0
  /\ whDelay = 0
  /\ whLastError = "none"

\* An event is triggered: the first delivery attempt starts.
Trigger ==
  /\ whStatus = "idle"
  /\ whEvent < MaxEvents
  /\ whStatus' = "sending"
  /\ whEvent' = whEvent + 1
  /\ whAttempts' = 1
  /\ whRetries' = 0
  /\ whElapsed' = 0
  /\ whDelay' = 0
  /\ whLastError' = "none"

\* One second passes while the endpoint has not answered.
Tick ==
  /\ whStatus = "sending"
  /\ whElapsed < TimeoutSeconds
  /\ whElapsed' = whElapsed + 1
  /\ UNCHANGED <<whStatus, whEvent, whAttempts, whRetries, whDelay, whLastError>>

\* The endpoint answers successfully, under the timeout.
EndpointAnswersOk ==
  /\ whStatus = "sending"
  /\ whElapsed < TimeoutSeconds
  /\ whStatus' = "delivered"
  /\ UNCHANGED <<whEvent, whAttempts, whRetries, whElapsed, whDelay, whLastError>>

\* "we'll retry to send the event up to 10 times with an exponential backoff"
DeliveryError_ElevenRetries(kind) ==
  /\ whLastError' = kind
  /\ IF whRetries <= MaxRetries
       THEN /\ whStatus' = "backoff"
            /\ whDelay' = BackoffDelay(whRetries + 1)
       ELSE /\ whStatus' = "abandoned"
            /\ whDelay' = 0
  /\ UNCHANGED <<whEvent, whAttempts, whRetries, whElapsed>>

DeliveryError(kind) ==
  /\ whLastError' = kind
  /\ IF whRetries < MaxRetries
       THEN /\ whStatus' = "backoff"
            /\ whDelay' = BackoffDelay(whRetries + 1)
       ELSE /\ whStatus' = "abandoned"
            /\ whDelay' = 0
  /\ UNCHANGED <<whEvent, whAttempts, whRetries, whElapsed>>

\* "a temporary network error"
NetworkError ==
  /\ whStatus = "sending"
  /\ whElapsed < TimeoutSeconds
  /\ DeliveryError("network")

\* "or a bug": the endpoint answers with an error.
EndpointAnswersError ==
  /\ whStatus = "sending"
  /\ whElapsed < TimeoutSeconds
  /\ DeliveryError("endpoint")

\* A timeout that gives the event up instead of entering the retry cycle.
TimeoutExpires_Dropped ==
  /\ whStatus = "sending"
  /\ whElapsed = TimeoutSeconds
  /\ whStatus' = "abandoned"
  /\ whLastError' = "timeout"
  /\ whDelay' = 0
  /\ UNCHANGED <<whEvent, whAttempts, whRetries, whElapsed>>

\* "Past this delay, the delivery will error and we'll enter the retry cycle"
TimeoutExpires ==
  /\ whStatus = "sending"
  /\ whElapsed = TimeoutSeconds
  /\ DeliveryError("timeout")

\* The backoff delay has passed: the event is sent again.
Retry ==
  /\ whStatus = "backoff"
  /\ whStatus' = "sending"
  /\ whRetries' = whRetries + 1
  /\ whAttempts' = whAttempts + 1
  /\ whElapsed' = 0
  /\ UNCHANGED <<whEvent, whDelay, whLastError>>

\* The delivery of the event is over; the next event may be triggered.
Finish ==
  /\ whStatus \in {"delivered", "abandoned"}
  /\ whStatus' = "idle"
  /\ UNCHANGED <<whEvent, whAttempts, whRetries, whElapsed, whDelay, whLastError>>

-----------------------------------------------------------------------------
(* OrganizationPublicPage: the tab state.                                  *)

\* The values of the tab control's triggers.
TabValues == {"overview", "posts", "subscriptions"}

\* The search parameters a navigation may carry.
SearchParamsChoices ==
  {<<>>, << <<"tab", "">> >>, << <<"ref", "x">> >>}
    \cup {<< <<"tab", v>> >> : v \in TabValues}
    \cup {<< <<"ref", "x">>, <<"tab", v>> >> : v \in TabValues}

\* useState<string>(onFirstRenderTab ?? 'overview')
InitialTab(prop) == OrElse(prop, "overview")

\* The effect without the emptiness test on searchTab.
TabEffect_NoTruthyTest(sp, t) ==
  LET searchTab == Get(sp, "tab")
  IN  IF searchTab # t THEN searchTab ELSE t

\* The body of the effect: the value of tab after it has run.
TabEffect(sp, t) ==
  LET searchTab == Get(sp, "tab")
  IN  IF Truthy(searchTab) /\ searchTab # t THEN searchTab ELSE t

OrgInit ==
  /\ onFirstRenderTab \in {None} \cup {Some(v) : v \in TabValues}
  /\ tab = InitialTab(onFirstRenderTab)
  /\ searchParams \in SearchParamsChoices
  /\ effectPending = TRUE          \* effects run after the first render
  /\ lastUserSel = None
  /\ orgOp = "mount"

\* The URL changes: useSearchParams() returns a new object, the component
\* renders again and the effect is scheduled (searchParams is a dependency).
\* React flushes a scheduled effect before it handles the next update.
SearchParamsChange(sp) ==
  /\ ~effectPending
  /\ searchParams' = sp
  /\ effectPending' = TRUE
  /\ lastUserSel' = None
  /\ orgOp' = "params"
  /\ UNCHANGED <<onFirstRenderTab, tab>>

\* <Tabs onValueChange={(v) => setTab(v)}>: tab is a dependency of the effect.
OnValueChange(v) ==
  /\ ~effectPending
  /\ tab' = v
  /\ effectPending' = (v # tab)
  /\ lastUserSel' = Some(v)
  /\ orgOp' = "select"
  /\ UNCHANGED <<onFirstRenderTab, searchParams>>

\* The effect runs; a setTab that changes tab schedules it again.
RunEffect ==
  /\ effectPending
  /\ tab' = TabEffect(searchParams, tab)
  /\ effectPending' = (tab' # tab)
  /\ orgOp' = "effect"
  /\ UNCHANGED <<onFirstRenderTab, searchParams, lastUserSel>>

-----------------------------------------------------------------------------
(* The finance pages: finance/incoming and finance/outgoing.               *)

Limit == 20       \* limit: 20 of both transaction queries
PageSize == 20    \* pageSize={20} of <Pagination>
MaxPage == 3      \* currentPage ranges over 1..MaxPage
MaxPending == 2   \* routes waiting in navQueue

\* The totals the back end may hold: none, one page, more than one page.
TotalChoices == {0, 1, PageSize + 1}

\* The account lists the back end may answer with.
AccountChoices == {<<>>, <<"acc1">>, <<"acc1", "acc2">>}

Min(a, b) == IF a < b THEN a ELSE b

\* A list answer of the API: the items of page pg and the total count.
ListResource(total, pg, limit) ==
  LET first == (pg - 1) * limit
      n == IF total > first THEN Min(limit, total - first) ELSE 0
  IN  [items |-> [i \in 1..n |-> first + i],
       pagination |-> [total_count |-> total,
                       max_page |-> (total + limit - 1) \div limit]]

\* The values of the two TabsTrigger.
TabTriggers == {"transactions", "payouts"}

\* The search parameters the page may be opened with.
IncomingParamsChoices ==
  LET types == {<<>>} \cup {<< <<"type", t>> >> :
                              t \in {"transactions", "payouts", "refunds"}}
      pages == {<<>>, << <<"page", "2">> >>}
  IN  {pg \o ty : pg \in pages, ty \in types}

\* router.replace that keeps the other parameters and sets 'type'.
ActiveTabRoute_KeepParams(value) ==
  [pathname |-> "/finance/incoming",
   query |-> SelectSeq(params, LAMBDA kv : kv[1] # "type")
               \o << <<"type", value>> >>]

\* router.replace that writes the tab under another key.
ActiveTabRoute_TabKey(value) ==
  [pathname |-> "/finance/incoming", query |-> << <<"tab", value>> >>]

\* `/finance/incoming?type=${value}`
ActiveTabRoute(value) ==
  [pathname |-> "/finance/incoming", query |-> << <<"type", value>> >>]

\* defaultValue={params.get('type') ?? 'transactions'}
DefaultTab(q) == IF Get(q, "type") = Null THEN "transactions" ELSE Get(q, "type")

\* {params?.get('type') ?? 'Transactions'}
Heading == IF Get(params, "type") = Null THEN "Transactions" ELSE Get(params, "type")

\* className="... capitalize": the first letter of the word in upper case.
Capitalize(s) ==
  CASE s = "transactions" -> "Transactions"
    [] s = "payouts" -> "Payouts"
    [] s = "refunds" -> "Refunds"
    [] OTHER -> s

PayoutsDescription == "Made from your transfer account to your bank account"
TransfersDescription == "Made from Polar to your connected transfer account"

\* params.get('type') === 'payouts' ? ... : ...
Description ==
  IF Get(params, "type") = "payouts" THEN PayoutsDescription
  ELSE TransfersDescription

\* useListAccountsByOrganization(...).data?.items ?? []
organizationAccounts == IF accounts = None THEN <<>> ELSE accounts[1].items

\* const [organizationAccount] = organizationAccounts
organizationAccount ==
  IF organizationAccounts = <<>> THEN None ELSE Some(organizationAccounts[1])

\* The arguments of useTransferTransactions and usePayoutTransactions.
TransfersArgs ==
  [accountId |-> organizationAccount, page |-> currentPage, limit |-> Limit]

PayoutsArgs ==
  [accountId |-> organizationAccount, page |-> currentPage, limit |-> Limit]

\* <TabsContent value="transactions">: the props of Pagination and of the list.
TransactionsTab ==
  [currentPage |-> currentPage,
   totalCount |-> IF transfers = None THEN 0
                  ELSE transfers[1].pagination.total_count,
   pageSize |-> PageSize,
   transactions |-> IF transfers = None THEN <<>> ELSE transfers[1].items]

\* <TabsContent value="payouts">
PayoutsTab ==
  [currentPage |-> currentPage,
   totalCount |-> IF transfers = None THEN 0
                  ELSE transfers[1].pagination.total_count,
   pageSize |-> PageSize,
   transactions |-> IF payouts = None THEN <<>> ELSE payouts[1].items]

\* finance/outgoing: the props of Pagination and of the list.
OutgoingContent ==
  [currentPage |-> currentPage,
   totalCount |-> IF transactions = None THEN 0
                  ELSE transactions[1].pagination.total_count,
   pageSize |-> PageSize,
   transactions |-> IF transactions = None THEN <<>> ELSE transactions[1].items]

FinUnmounted ==
  /\ server = [transfers |-> 0, payouts |-> 0, payments |-> 0]
  /\ params = <<>>
  /\ activeTab = "transactions"
  /\ navQueue = <<>>
  /\ currentPage = 1
  /\ accounts = None
  /\ transfers = None
  /\ payouts = None
  /\ transactions = None
  /\ finOp = "none"
  /\ droppedKeys = {}

IncomingInit ==
  /\ \E t \in TotalChoices, p \in TotalChoices :
       server = [transfers |-> t, payouts |-> p, payments |-> 0]
  /\ params \in IncomingParamsChoices
  /\ activeTab = DefaultTab(params)
  /\ navQueue = <<>>
  /\ currentPage \in 1..MaxPage
  /\ accounts = None
  /\ transfers = None
  /\ payouts = None
  /\ transactions = None
  /\ finOp = "mount"
  /\ droppedKeys = {}

OutgoingInit ==
  /\ \E t \in TotalChoices :
       server = [transfers |-> 0, payouts |-> 0, payments |-> t]
  /\ params = <<>>
  /\ activeTab = "transactions"
  /\ navQueue = <<>>
  /\ currentPage \in 1..MaxPage
  /\ accounts = None
  /\ transfers = None
  /\ payouts = None
  /\ transactions = None
  /\ finOp = "mount"
  /\ droppedKeys = {}

\* The accounts query answers; the transaction queries are keyed by the
\* account id and start again.
AccountsResolve(items) ==
  /\ page \in {"incoming", "outgoing"}
  /\ accounts = None
  /\ accounts' = Some([items |-> items])
  /\ transfers' = None
  /\ payouts' = None
  /\ finOp' = "accounts"
  /\ UNCHANGED <<server, params, activeTab, navQueue, currentPage,
                 transactions, droppedKeys>>

\* The transfers query answers for the arguments it was issued with.
TransfersResolve ==
  /\ page = "incoming"
  /\ transfers = None
  /\ IsSome(TransfersArgs.accountId)
  /\ transfers' = Some(ListResource(server.transfers, TransfersArgs.page,
                                    TransfersArgs.limit))
  /\ finOp' = "transfers"
  /\ UNCHANGED <<server, params, activeTab, navQueue, currentPage, accounts,
                 payouts, transactions, droppedKeys>>

\* The payouts query answers for the arguments it was issued with.
PayoutsResolve ==
  /\ page = "incoming"
  /\ payouts = None
  /\ IsSome(PayoutsArgs.accountId)
  /\ payouts' = Some(ListResource(server.payouts, PayoutsArgs.page,
                                  PayoutsArgs.limit))
  /\ finOp' = "payouts"
  /\ UNCHANGED <<server, params, activeTab, navQueue, currentPage, accounts,
                 transfers, transactions, droppedKeys>>

\* finance/outgoing: the payments query answers (the hook is given no limit;
\* a page of the list is taken to hold PageSize items).
PaymentsResolve ==
  /\ page = "outgoing"
  /\ transactions = None
  /\ transactions' = Some(ListResource(server.payments, currentPage, PageSize))
  /\ finOp' = "payments"
  /\ UNCHANGED <<server, params, activeTab, navQueue, currentPage, accounts,
                 transfers, payouts, droppedKeys>>

\* onPageChange={setCurrentPage}: the queries are keyed by the page.
SetCurrentPage(p) ==
  /\ page \in {"incoming", "outgoing"}
  /\ p # currentPage
  /\ currentPage' = p
  /\ transfers' = None
  /\ payouts' = None
  /\ transactions' = None
  /\ finOp' = "page"
  /\ UNCHANGED <<server, params, activeTab, navQueue, accounts, droppedKeys>>

\* onValueChange={setActiveTab}: the Tabs switch to the value and the route
\* is handed to the router, which commits it later.
SetActiveTab(value) ==
  /\ page = "incoming"
  /\ Len(navQueue) < MaxPending
  /\ activeTab' = value
  /\ navQueue' = Append(navQueue, ActiveTabRoute(value))
  /\ finOp' = "select"
  /\ UNCHANGED <<server, params, currentPage, accounts, transfers, payouts,
                 transactions, droppedKeys>>

\* The router commits a route: useSearchParams() returns its query.
NavCommit ==
  /\ page = "incoming"
  /\ navQueue # <<>>
  /\ params' = Head(navQueue).query
  /\ navQueue' = Tail(navQueue)
  /\ droppedKeys' = Keys(params) \ Keys(params')
  /\ finOp' = "commit"
  /\ UNCHANGED <<server, activeTab, currentPage, accounts, transfers, payouts,
                 transactions>>

-----------------------------------------------------------------------------
(* The sales page.                                                         *)

MaxPageIndex == 2   \* pagination.pageIndex ranges over 0..MaxPageIndex

Slugs == {"acme", "polar"}
PageSizes == {20, 50}
SortColumns == {"created_at", "amount"}

PaginationStates == [pageIndex : 0..MaxPageIndex, pageSize : PageSizes]

SortingStates ==
  {<<>>,
   <<[id |-> "created_at", desc |-> TRUE]>>,
   <<[id |-> "amount", desc |-> FALSE]>>,
   <<[id |-> "amount", desc |-> TRUE], [id |-> "created_at", desc |-> FALSE]>>}

\* The values ProductSelect hands to onChange.
ProductChoices == {<<>>, <<"p1">>, <<"p2", "p1">>}

\* The updater functions the data table passes to onPaginationChange.
PaginationUpdaters ==
  {[old \in PaginationStates |->
      [old EXCEPT !.pageIndex = Min(old.pageIndex + 1, MaxPageIndex)]],
   [old \in PaginationStates |->
      [old EXCEPT !.pageIndex = IF old.pageIndex > 0 THEN old.pageIndex - 1 ELSE 0]],
   [old \in PaginationStates |-> [pageIndex |-> 0, pageSize |-> 50]]}

\* The updater functions the data table passes to onSortingChange.
SortingUpdaters ==
  {[old \in SortingStates |->
      IF old = <<[id |-> "created_at", desc |-> TRUE]>>
        THEN <<[id |-> "amount", desc |-> FALSE]>>
        ELSE <<[id |-> "created_at", desc |-> TRUE]>>],
   [old \in SortingStates |-> <<>>]}

\* updaterOrValue: a value or a function of the old value.
AsValue(v) == [type |-> "object", v |-> v]
AsFunction(f) == [type |-> "function", v |-> f]

\* typeof updaterOrValue === 'function' ? updaterOrValue(old) : updaterOrValue
Resolve(updaterOrValue, old) ==
  IF updaterOrValue.type = "function" THEN updaterOrValue.v[old]
  ELSE updaterOrValue.v

\* A sorting entry as a query value: "-id" when descending, "id" otherwise.
SortParam(s) == IF s.desc THEN "-" \o s.id ELSE s.id

\* utils/datatable: page (1-based), limit and one 'sorting' entry per column.
serializeSearchParams(pg, so) ==
  << <<"page", ToString(pg.pageIndex + 1)>>, <<"limit", ToString(pg.pageSize)>> >>
    \o [i \in 1..Len(so) |-> <<"sorting", SortParam(so[i])>>]

\* getSearchParams: an array, empty or not, is truthy.
getSearchParams(pg, so, pid) ==
  LET sp == serializeSearchParams(pg, so)
  IN  IF IsSome(pid)
        THEN sp \o [i \in 1..Len(pid[1]) |-> <<"product_id", pid[1][i]>>]
        ELSE sp

\* `/dashboard/${organization.slug}/sales?${...}`
SalesRoute(org, q) ==
  [pathname |-> "/dashboard/" \o org.slug \o "/sales", query |-> q]

\* URLSearchParams.getAll
GetAll(q, k) ==
  LET hits == SelectSeq(q, LAMBDA kv : kv[1] = k)
  IN  [i \in 1..Len(hits) |-> hits[i][2]]

\* The sales route's page component: the props read back from the query.
ParsePagination(q) ==
  [pageIndex |-> (CHOOSE n \in 1..(MaxPageIndex + 1) : ToString(n) = Get(q, "page")) - 1,
   pageSize |-> CHOOSE n \in PageSizes : ToString(n) = Get(q, "limit")]

ParseSorting(q) ==
  LET vs == GetAll(q, "sorting")
  IN  [i \in 1..Len(vs) |->
         CHOOSE s \in [id : SortColumns, desc : BOOLEAN] : SortParam(s) = vs[i]]

ParseProductId(q) ==
  IF GetAll(q, "product_id") = <<>> THEN None ELSE Some(GetAll(q, "product_id"))

\* ordersHook.data?.items || []
orders ==
  IF ordersHook.data = None THEN <<>>
  ELSE IF ordersHook.data[1].items = <<>> THEN <<>> ELSE ordersHook.data[1].items

\* ordersHook.data?.pagination.max_page ?? 1
pageCount ==
  IF ordersHook.data = None THEN 1 ELSE ordersHook.data[1].pagination.max_page

\* {orders && pageCount !== undefined && (<DataTable .../>)}: an array is
\* truthy and pageCount is always a number.
DataTableRendered == orders \in Seq(Nat) /\ pageCount \in Nat

SalesUnmounted ==
  /\ organization = [slug |-> "acme"]
  /\ pagination = [pageIndex |-> 0, pageSize |-> 20]
  /\ sorting = <<>>
  /\ productId = None
  /\ ordersHook = [data |-> None, isLoading |-> FALSE]
  /\ pushed = None
  /\ salesLast = [op |-> "none", arg |-> <<>>]

SalesInit ==
  /\ organization \in [slug : Slugs]
  /\ pagination = [pageIndex |-> 0, pageSize |-> 20]
  /\ sorting = <<[id |-> "created_at", desc |-> TRUE]>>
  /\ productId = None
  /\ ordersHook = [data |-> None, isLoading |-> TRUE]
  /\ pushed = None
  /\ salesLast = [op |-> "none", arg |-> <<>>]

setPagination(updaterOrValue) ==
  /\ page = "sales"
  /\ LET updatedPagination == Resolve(updaterOrValue, pagination)
     IN  pushed' = Some(SalesRoute(organization,
                     getSearchParams(updatedPagination, sorting, productId)))
  /\ salesLast' = [op |-> "setPagination", arg |-> updaterOrValue]
  /\ UNCHANGED <<organization, pagination, sorting, productId, ordersHook>>

setSorting(updaterOrValue) ==
  /\ page = "sales"
  /\ LET updatedSorting == Resolve(updaterOrValue, sorting)
     IN  pushed' = Some(SalesRoute(organization,
                     getSearchParams(pagination, updatedSorting, productId)))
  /\ salesLast' = [op |-> "setSorting", arg |-> updaterOrValue]
  /\ UNCHANGED <<organization, pagination, sorting, productId, ordersHook>>

\* A product selection that goes back to the first page.
onProductSelect_ResetPage(value) ==
  /\ page = "sales"
  /\ pushed' = Some(SalesRoute(organization,
                  getSearchParams([pagination EXCEPT !.pageIndex = 0], sorting,
                                  Some(value))))
  /\ salesLast' = [op |-> "onProductSelect", arg |-> value]
  /\ UNCHANGED <<organization, pagination, sorting, productId, ordersHook>>

onProductSelect(value) ==
  /\ page = "sales"
  /\ pushed' = Some(SalesRoute(organization,
                  getSearchParams(pagination, sorting, Some(value))))
  /\ salesLast' = [op |-> "onProductSelect", arg |-> value]
  /\ UNCHANGED <<organization, pagination, sorting, productId, ordersHook>>

\* The pushed route is rendered: the page gets the props of its query and
\* the orders query, keyed by them, starts again.
SalesRender ==
  /\ page = "sales"
  /\ IsSome(pushed)
  /\ pagination' = ParsePagination(pushed[1].query)
  /\ sorting' = ParseSorting(pushed[1].query)
  /\ productId' = ParseProductId(pushed[1].query)
  /\ ordersHook' = [data |-> None, isLoading |-> TRUE]
  /\ pushed' = None
  /\ UNCHANGED <<organization, salesLast>>

\* The orders query answers: getAPIParams gives page pageIndex + 1, limit pageSize.
OrdersResolve(total) ==
  /\ page = "sales"
  /\ ordersHook.data = None
  /\ ordersHook' = [data |-> Some(ListResource(total, pagination.pageIndex + 1,
                                               pagination.pageSize)),
                    isLoading |-> FALSE]
  /\ UNCHANGED <<organization, pagination, sorting, productId, pushed, salesLast>>

-----------------------------------------------------------------------------
(* The specifications.                                                     *)

WhUnmounted == WhInit

OrgUnmounted ==
  /\ onFirstRenderTab = None
  /\ tab = "overview"
  /\ searchParams = <<>>
  /\ effectPending = FALSE
  /\ lastUserSel = None
  /\ orgOp = "none"

DashUnmounted == page = "none" /\ FinUnmounted /\ SalesUnmounted

DashInit ==
  /\ page \in {"incoming", "outgoing", "sales"}
  /\ page = "incoming" => IncomingInit /\ SalesUnmounted
  /\ page = "outgoing" => OutgoingInit /\ SalesUnmounted
  /\ page = "sales" => FinUnmounted /\ SalesInit

\* Webhook delivery.
WebhookNext ==
  \/ Trigger /\ UNCHANGED <<orgVars, dashVars>>
  \/ Tick /\ UNCHANGED <<orgVars, dashVars>>
  \/ EndpointAnswersOk /\ UNCHANGED <<orgVars, dashVars>>
  \/ NetworkError /\ UNCHANGED <<orgVars, dashVars>>
  \/ EndpointAnswersError /\ UNCHANGED <<orgVars, dashVars>>
  \/ TimeoutExpires /\ UNCHANGED <<orgVars, dashVars>>
  \/ Retry /\ UNCHANGED <<orgVars, dashVars>>
  \/ Finish /\ UNCHANGED <<orgVars, dashVars>>

WebhookInit == WhInit /\ OrgUnmounted /\ DashUnmounted

WebhookSpec == WebhookInit /\ [][WebhookNext]_vars

\* OrganizationPublicPage.
OrganizationNext ==
  \/ \E sp \in SearchParamsChoices :
       SearchParamsChange(sp) /\ UNCHANGED <<whVars, dashVars>>
  \/ \E v \in TabValues : OnValueChange(v) /\ UNCHANGED <<whVars, dashVars>>
  \/ RunEffect /\ UNCHANGED <<whVars, dashVars>>

OrganizationInit == WhUnmounted /\ OrgInit /\ DashUnmounted

OrganizationSpec == OrganizationInit /\ [][OrganizationNext]_vars

\* The dashboard pages.
DashboardNext ==
  \/ \E items \in AccountChoices :
       AccountsResolve(items) /\ UNCHANGED <<whVars, orgVars, page, salesVars>>
  \/ TransfersResolve /\ UNCHANGED <<whVars, orgVars, page, salesVars>>
  \/ PayoutsResolve /\ UNCHANGED <<whVars, orgVars, page, salesVars>>
  \/ PaymentsResolve /\ UNCHANGED <<whVars, orgVars, page, salesVars>>
  \/ \E p \in 1..MaxPage :
       SetCurrentPage(p) /\ UNCHANGED <<whVars, orgVars, page, salesVars>>
  \/ \E v \in TabTriggers :
       SetActiveTab(v) /\ UNCHANGED <<whVars, orgVars, page, salesVars>>
  \/ NavCommit /\ UNCHANGED <<whVars, orgVars, page, salesVars>>
  \/ \E v \in PaginationStates :
       setPagination(AsValue(v)) /\ UNCHANGED <<whVars, orgVars, page, finVars>>
  \/ \E f \in PaginationUpdaters :
       setPagination(AsFunction(f)) /\ UNCHANGED <<whVars, orgVars, page, finVars>>
  \/ \E v \in SortingStates :
       setSorting(AsValue(v)) /\ UNCHANGED <<whVars, orgVars, page, finVars>>
  \/ \E f \in SortingUpdaters :
       setSorting(AsFunction(f)) /\ UNCHANGED <<whVars, orgVars, page, finVars>>
  \/ \E v \in ProductChoices :
       onProductSelect(v) /\ UNCHANGED <<whVars, orgVars, page, finVars>>
  \/ SalesRender /\ UNCHANGED <<whVars, orgVars, page, finVars>>
  \/ \E t \in TotalChoices :
       OrdersResolve(t) /\ UNCHANGED <<whVars, orgVars, page, finVars>>

DashboardInit == WhUnmounted /\ OrgUnmounted /\ DashInit

DashboardSpec == DashboardInit /\ [][DashboardNext]_vars

-----------------------------------------------------------------------------
(* Webhook delivery: the retry cycle.                                      *)

\* At most 10 retries (11 attempts); an event is given up only after the
\* 10th retry failed; the backoff delay before retry k is 2^(k-1).
RetryBound ==
  /\ whRetries \in 0..10
  /\ whAttempts <= 11
  /\ whStatus \in {"sending", "backoff", "delivered", "abandoned"}
       => whAttempts = whRetries + 1
  /\ whStatus = "abandoned" => whRetries = 10 /\ whLastError # "none"
  /\ whStatus = "backoff" => whRetries < 10 /\ whDelay = 2 ^ whRetries

\* A failed attempt is followed by a retry exactly while fewer than 10 retries
\* were made, each delay twice the one before; a waiting event is sent again;
\* a delivered or given-up event is never sent again.
RetryStep ==
  /\ whStatus = "sending" /\ whStatus' \in {"backoff", "abandoned"}
       => /\ whStatus' = "backoff" <=> whRetries < 10
          /\ whStatus' = "backoff"
               => whDelay' = IF whRetries = 0 THEN 1 ELSE 2 * whDelay
  /\ whStatus = "backoff"
       => whStatus' = "sending" /\ whRetries' = whRetries + 1
  /\ whStatus \in {"delivered", "abandoned"}
       => /\ whStatus' \in {whStatus, "idle"}
          /\ whAttempts' = whAttempts /\ whRetries' = whRetries

\* C1: a failed delivery (network error or endpoint error) is retried up to
\* 10 times with exponential backoff; after the 10th retry failed the event
\* is not sent again, and a successful attempt ends the retry cycle.
C1_RetriedUpToTenTimes == []RetryBound /\ [][RetryStep]_vars

\* The 10th retry has failed and the event is given up after 11 attempts.
C1_Witness ==
  whStatus = "abandoned" /\ whRetries = 10 /\ whAttempts = 11 /\ whEvent = 1

\* An attempt that reached 20 seconds without an answer errors with a timeout
\* and is handled as every other error: retried while retries are left.
TimeoutStep ==
  whStatus = "sending" /\ whElapsed = 20
    => /\ whLastError' = "timeout"
       /\ whStatus' = IF whRetries < 10 THEN "backoff" ELSE "abandoned"
       /\ whAttempts' = whAttempts /\ whRetries' = whRetries

\* C2: an endpoint that has not answered within 20 seconds makes the attempt
\* an error, and the event enters the retry cycle of any other error: it is
\* neither counted as delivered nor dropped without retry.
C2_TimeoutEntersRetryCycle ==
  /\ [](whStatus = "delivered" => whElapsed < 20)
  /\ [][TimeoutStep]_vars

\* An attempt timed out and the event is being sent again.
C2_Witness ==
  whLastError = "timeout" /\ whStatus = "sending" /\ whRetries = 1
    /\ whElapsed = 0

-----------------------------------------------------------------------------
(* OrganizationPublicPage.                                                 *)

\* The value the URL gives for 'tab'.
UrlTab == Get(searchParams, "tab")

\* A change of the search parameters leaves tab alone; the effect that
\* follows sets tab to a non-empty 'tab' value and leaves it alone otherwise.
ExternallyControlledStep ==
  /\ orgOp' = "params" => tab' = tab
  /\ orgOp' = "effect"
       => tab' = IF UrlTab # Null /\ UrlTab # "" THEN UrlTab ELSE tab

\* C3: the tab starts as onFirstRenderTab (or 'overview'); when the search
\* parameters change to carry a non-empty 'tab' value that differs from the
\* current tab, the tab becomes that value; with 'tab' absent or empty a
\* change of the search parameters leaves the tab unchanged.
C3_TabFollowsSearchParams ==
  /\ tab = IF onFirstRenderTab = None THEN "overview" ELSE onFirstRenderTab[1]
  /\ [](~effectPending /\ UrlTab # Null /\ UrlTab # "" => tab = UrlTab)
  /\ [][ExternallyControlledStep]_vars

\* The search parameters changed to a 'tab' value other than the current tab
\* and the effect made it the current tab.
C3_Witness ==
  /\ orgOp = "effect"
  /\ lastUserSel = None
  /\ onFirstRenderTab = Some("posts")
  /\ UrlTab = "subscriptions"
  /\ tab = "subscriptions"

\* C6: after the user selects tab v through the tab control, the displayed
\* tab is v and stays v until the next selection or the next change of the
\* search parameters, also when the URL carries another 'tab' value.
C6_UserSelectionStays == IsSome(lastUserSel) => tab = lastUserSel[1]

-----------------------------------------------------------------------------
(* finance/incoming, finance/outgoing and sales.                           *)

\* C4: missing query data is replaced by a default and never blocks
\* rendering: on the finance pages an unloaded accounts or transactions query
\* yields an empty accounts list, an empty transactions list and a total
\* count of 0; on the sales page an unloaded orders query yields no orders
\* and a page count of 1, and the data table is rendered in every state.
C4_DefaultsForMissingData ==
  /\ page = "incoming"
       => /\ accounts = None => organizationAccounts = <<>>
          /\ transfers = None
               => TransactionsTab.transactions = <<>> /\ TransactionsTab.totalCount = 0
          /\ payouts = None
               => PayoutsTab.transactions = <<>> /\ PayoutsTab.totalCount = 0
  /\ page = "outgoing"
       => /\ accounts = None => organizationAccounts = <<>>
          /\ transactions = None
               => OutgoingContent.transactions = <<>> /\ OutgoingContent.totalCount = 0
  /\ page = "sales"
       => /\ ordersHook.data = None => orders = <<>> /\ pageCount = 1
          /\ DataTableRendered

\* C5: the pagination of the payouts tab has the total count of the payouts
\* result, and that of the transactions tab the total count of the transfers
\* result.
C5_PaginationMatchesItsList ==
  page = "incoming"
    => /\ IsSome(payouts)
            => PayoutsTab.totalCount = payouts[1].pagination.total_count
       /\ IsSome(transfers)
            => TransactionsTab.totalCount = transfers[1].pagination.total_count

\* The pagination and the sorting a handler of the sales page is to write.
ExpectedPagination ==
  IF salesLast.op = "setPagination"
    THEN IF salesLast.arg.type = "function" THEN salesLast.arg.v[pagination]
         ELSE salesLast.arg.v
    ELSE pagination

ExpectedSorting ==
  IF salesLast.op = "setSorting"
    THEN IF salesLast.arg.type = "function" THEN salesLast.arg.v[sorting]
         ELSE salesLast.arg.v
    ELSE sorting

ExpectedProducts ==
  IF salesLast.op = "onProductSelect" THEN salesLast.arg
  ELSE IF productId = None THEN <<>> ELSE productId[1]

\* C7: each of the three table controls of the sales page changes only its
\* own part of the URL: the pushed route is /dashboard/<slug>/sales with the
\* new value of the control's part (an updater applied to the current prop)
\* and the current values of the two other parts; a product selection keeps
\* the page index.
C7_ControlChangesOnlyItsPart ==
  page = "sales" /\ IsSome(pushed)
    => /\ pushed[1].pathname = "/dashboard/" \o organization.slug \o "/sales"
       /\ Keys(pushed[1].query) \subseteq {"page", "limit", "sorting", "product_id"}
       /\ ParsePagination(pushed[1].query) = ExpectedPagination
       /\ ParseSorting(pushed[1].query) = ExpectedSorting
       /\ GetAll(pushed[1].query, "product_id") = ExpectedProducts

\* A product was selected on a later page of a sorted table.
C7_Witness ==
  /\ page = "sales" /\ IsSome(pushed)
  /\ salesLast.op = "onProductSelect" /\ salesLast.arg = <<"p2", "p1">>
  /\ pagination.pageIndex = 2
  /\ sorting # <<>>
  /\ productId = Some(<<"p1">>)

C9_TabSwitchKeepsOnlyType ==
  page = "incoming"
    => /\ \A i \in 1..Len(navQueue) : Keys(navQueue[i].query) = {"type"}
       /\ finOp = "commit"
            => Keys(params) = {"type"} /\ droppedKeys \cap Keys(params) = {}
       /\ TransfersArgs.page = currentPage /\ PayoutsArgs.page = currentPage
       /\ TransfersArgs.limit = 20 /\ PayoutsArgs.limit = 20

\* The URL carried a 'page' parameter, which the tab switch removed.
C9_Witness ==
  /\ page = "incoming" /\ finOp = "commit"
  /\ droppedKeys = {"page"}
  /\ Keys(params) = {"type"}
  /\ currentPage = 2

=============================================================================
